---- MODULE Spec2Model ----
(***************************************************************************)
(* MIX_SORTER: enrichment of playlist tracks from a local reference        *)
(* dataset, the harmonic (Camelot) sort, and the chunked write-back.       *)
(* Model of src/src/main.rs.                                               *)
(*                                                                         *)
(* Strings are sequences of one-character strings.  The characters         *)
(* U+2019, U+201C, U+201D and the backtick are written "rsquo", "ldquo",   *)
(* "rdquo" and "grave".                                                    *)
(* Option<T> is a sequence of length 0 (None) or 1 (Some).                 *)
(* f32 tempos are integers: only their order and their sign are used, and  *)
(* serde_json never yields NaN.                                            *)
(***************************************************************************)
EXTENDS Integers, Sequences, FiniteSets, TLC

\* ------------------------------------------------------------------ bounds

\* Longest Camelot string drawn as an input of camelot_to_spotify.
MaxCodeLen == 3

\* Longest candidate list drawn as an input of find_best_match.
MaxCands == 2

\* Most records in local_db.json.
MaxEntries == 2

\* Most tracks in the playlist of a full run.
MaxPlaylist == 3

\* Most tracks handed to the partition and sort.
MaxSort == 3

\* Most items handed to the write-back.
MaxWrite == 5

\* Items per replace/add call: chunks(100) in the source, scaled down.
ChunkSize == 2

\* ----------------------------------------------------------------- strings

\* The element of a one-element set: {f(x) : x \in {e}} computes e once,
\* where LET x == e IN f(x) computes it at each use of x.
The(S) == CHOOSE x \in S : TRUE

None == <<>>

Some(x) == <<x>>

Major == "Major"

Minor == "Minor"

UpperChars == <<"A","B","C","D","E","F","G","H","I","J","K","L","M",
                "N","O","P","Q","R","S","T","U","V","W","X","Y","Z">>

LowerChars == <<"a","b","c","d","e","f","g","h","i","j","k","l","m",
                "n","o","p","q","r","s","t","u","v","w","x","y","z">>

DigitChars == <<"0","1","2","3","4","5","6","7","8","9">>

\* char -> its lowercase, for the letters that have one
LowerOf == [c \in {UpperChars[k] : k \in 1..26} |->
              LowerChars[CHOOSE k \in 1..26 : UpperChars[k] = c]]

UpperOf == [c \in {LowerChars[k] : k \in 1..26} |->
              UpperChars[CHOOSE k \in 1..26 : LowerChars[k] = c]]

lower_char(c) == IF c \in DOMAIN LowerOf THEN LowerOf[c] ELSE c

upper_char(c) == IF c \in DOMAIN UpperOf THEN UpperOf[c] ELSE c

to_lowercase(s) == [i \in 1..Len(s) |-> lower_char(s[i])]

to_uppercase(s) == [i \in 1..Len(s) |-> upper_char(s[i])]

is_numeric(c) == \E k \in 1..10 : DigitChars[k] = c

\* str::trim: from the first to the last character that is not white space.
trim(s) ==
  LET inner == {i \in 1..Len(s) : s[i] # " "}
  IN  IF inner = {} THEN <<>>
      ELSE SubSeq(s, CHOOSE i \in inner : \A k \in inner : i <= k,
                     CHOOSE i \in inner : \A k \in inner : i >= k)

\* The replace calls of normalize whose pattern is one character, on one
\* character: none of them produces a character that a later one replaces.
replace_char(c) ==
  CASE c = "rsquo" -> "'"
    [] c = "grave" -> "'"
    [] c = "ldquo" -> "\""
    [] c = "rdquo" -> "\""
    [] c = "-"     -> " "
    [] OTHER       -> c

\* str::replace("  ", " ") from position i on: every non-overlapping pair of
\* spaces, left to right, in one pass (a run of three spaces leaves two).
RECURSIVE replace_double_space(_, _)
replace_double_space(s, i) ==
  IF i > Len(s) THEN <<>>
  ELSE IF i < Len(s) /\ s[i] = " " /\ s[i + 1] = " "
       THEN <<" ">> \o replace_double_space(s, i + 2)
       ELSE <<s[i]>> \o replace_double_space(s, i + 1)

\* str::contains
contains(hay, needle) ==
  \E i \in 0..(Len(hay) - Len(needle)) : SubSeq(hay, i + 1, i + Len(needle)) = needle

\* The chain of normalize up to the last replace, on a trimmed string.
replace_chars(trimmed) ==
  [i \in 1..Len(trimmed) |-> replace_char(The({lower_char(c) : c \in {trimmed[i]}}))]

normalize(s) ==
  The({replace_double_space(mapped, 1) :
         mapped \in {replace_chars(trimmed) : trimmed \in {trim(s)}}})

\* ------------------------------------------------------------ key notation

DigitValue(c) == (CHOOSE k \in 1..10 : DigitChars[k] = c) - 1

\* The value of the first n digits of ds.
RECURSIVE DecimalValue(_, _)
DecimalValue(ds, n) ==
  IF n = 0 THEN 0 ELSE 10 * DecimalValue(ds, n - 1) + DigitValue(ds[n])

RECURSIVE trim_zeros(_)
trim_zeros(ds) ==
  IF Len(ds) > 1 /\ Head(ds) = "0" THEN trim_zeros(Tail(ds)) ELSE ds

\* str::parse::<i32> of a string of digits: None when empty or out of range.
\* (More than 10 digits always overflow; the guard keeps the arithmetic small.)
parse_i32(ds) ==
  IF ds = <<>> THEN None
  ELSE LET sig == trim_zeros(ds)
       IN  IF Len(sig) > 10 THEN None
           ELSE IF Len(sig) = 10 /\ DecimalValue(sig, 9) > 214748364 THEN None
           ELSE IF Len(sig) = 10 /\ DecimalValue(sig, 9) = 214748364
                   /\ DigitValue(sig[10]) > 7 THEN None
           ELSE Some(DecimalValue(sig, Len(sig)))

camelot_pitch(num, mode) ==
  CASE num = 1  /\ mode = Major -> Some(11) [] num = 1  /\ mode = Minor -> Some(8)
    [] num = 2  /\ mode = Major -> Some(6)  [] num = 2  /\ mode = Minor -> Some(3)
    [] num = 3  /\ mode = Major -> Some(1)  [] num = 3  /\ mode = Minor -> Some(10)
    [] num = 4  /\ mode = Major -> Some(8)  [] num = 4  /\ mode = Minor -> Some(5)
    [] num = 5  /\ mode = Major -> Some(3)  [] num = 5  /\ mode = Minor -> Some(0)
    [] num = 6  /\ mode = Major -> Some(10) [] num = 6  /\ mode = Minor -> Some(7)
    [] num = 7  /\ mode = Major -> Some(5)  [] num = 7  /\ mode = Minor -> Some(2)
    [] num = 8  /\ mode = Major -> Some(0)  [] num = 8  /\ mode = Minor -> Some(9)
    [] num = 9  /\ mode = Major -> Some(7)  [] num = 9  /\ mode = Minor -> Some(4)
    [] num = 10 /\ mode = Major -> Some(2)  [] num = 10 /\ mode = Minor -> Some(11)
    [] num = 11 /\ mode = Major -> Some(9)  [] num = 11 /\ mode = Minor -> Some(6)
    [] num = 12 /\ mode = Major -> Some(4)  [] num = 12 /\ mode = Minor -> Some(1)
    [] OTHER -> None

camelot_to_spotify(camelot) ==
  The({LET mode    == IF contains(clean, <<"A">>) THEN Minor ELSE Major
           num_str == SelectSeq(clean, is_numeric)
           num     == parse_i32(num_str)
       IN  IF num = None THEN None
           ELSE LET pitch == camelot_pitch(num[1], mode)
                IN  IF pitch = None THEN None
                    ELSE Some([pitch |-> pitch[1], mode |-> mode]) :
         clean \in {to_uppercase(trim(camelot))}})

sort_weight_entry(pitch, mode) ==
  CASE pitch = 11 /\ mode = Major -> <<1, TRUE>>  [] pitch = 8  /\ mode = Minor -> <<1, FALSE>>
    [] pitch = 6  /\ mode = Major -> <<2, TRUE>>  [] pitch = 3  /\ mode = Minor -> <<2, FALSE>>
    [] pitch = 1  /\ mode = Major -> <<3, TRUE>>  [] pitch = 10 /\ mode = Minor -> <<3, FALSE>>
    [] pitch = 8  /\ mode = Major -> <<4, TRUE>>  [] pitch = 5  /\ mode = Minor -> <<4, FALSE>>
    [] pitch = 3  /\ mode = Major -> <<5, TRUE>>  [] pitch = 0  /\ mode = Minor -> <<5, FALSE>>
    [] pitch = 10 /\ mode = Major -> <<6, TRUE>>  [] pitch = 7  /\ mode = Minor -> <<6, FALSE>>
    [] pitch = 5  /\ mode = Major -> <<7, TRUE>>  [] pitch = 2  /\ mode = Minor -> <<7, FALSE>>
    [] pitch = 0  /\ mode = Major -> <<8, TRUE>>  [] pitch = 9  /\ mode = Minor -> <<8, FALSE>>
    [] pitch = 7  /\ mode = Major -> <<9, TRUE>>  [] pitch = 4  /\ mode = Minor -> <<9, FALSE>>
    [] pitch = 2  /\ mode = Major -> <<10, TRUE>> [] pitch = 11 /\ mode = Minor -> <<10, FALSE>>
    [] pitch = 9  /\ mode = Major -> <<11, TRUE>> [] pitch = 6  /\ mode = Minor -> <<11, FALSE>>
    [] pitch = 4  /\ mode = Major -> <<12, TRUE>> [] pitch = 1  /\ mode = Minor -> <<12, FALSE>>
    [] OTHER -> <<99, FALSE>>

\* Mutant of get_sort_weight: the major/minor bit inverted.
get_sort_weight_minor_bit(pitch, mode) ==
  LET e == sort_weight_entry(pitch, mode)
  IN  (e[1] * 10) + (IF e[2] THEN 0 ELSE 1)

get_sort_weight(pitch, mode) ==
  LET e == sort_weight_entry(pitch, mode)
  IN  (e[1] * 10) + (IF e[2] THEN 1 ELSE 0)

\* ----------------------------------------------------------- track matcher

Abs(x) == IF x < 0 THEN -x ELSE x

\* Mutant of artist_score: a mismatch scores nothing instead of skipping
\* the candidate.
artist_score_no_skip(db_artist_norm, spot_artist_norm) ==
  IF db_artist_norm = spot_artist_norm THEN Some(100)
  ELSE IF contains(db_artist_norm, spot_artist_norm)
          \/ contains(spot_artist_norm, db_artist_norm) THEN Some(80)
  ELSE Some(0)

\* The artist check: Some(points), or None for the `continue` of a mismatch.
artist_score(db_artist_norm, spot_artist_norm) ==
  IF db_artist_norm = spot_artist_norm THEN Some(100)
  ELSE IF contains(db_artist_norm, spot_artist_norm)
          \/ contains(spot_artist_norm, db_artist_norm) THEN Some(80)
  ELSE None

\* The artist check of one candidate.
candidate_gate(spotify_track, candidate) ==
  The({artist_score(db_artist_norm, spot_artist_norm) :
         db_artist_norm \in {normalize(candidate.artist)},
         spot_artist_norm \in {normalize(spotify_track.artist)}})

duration_score(spotify_track, candidate) ==
  IF candidate.duration_ms = None THEN 0
  ELSE LET diff == Abs(candidate.duration_ms[1] - spotify_track.duration_ms)
       IN  IF diff < 5000 THEN 50 ELSE -50

name_score(spotify_track, candidate) ==
  IF normalize(candidate.name) = normalize(spotify_track.name) THEN 20 ELSE 0

\* Mutant of is_better: an equal score replaces the best one so far.
is_better_or_equal(score, highest_score) == score >= highest_score

\* The test that lets a candidate replace the best one so far.
is_better(score, highest_score) == score > highest_score

\* The score the loop body gives one candidate: None for the `continue`.
candidate_score(spotify_track, candidate) ==
  The({IF gate = None THEN None
       ELSE Some(gate[1] + duration_score(spotify_track, candidate)
                         + name_score(spotify_track, candidate)) :
         gate \in {candidate_gate(spotify_track, candidate)}})

\* The loop of find_best_match from candidate i on; best is the index of
\* best_candidate (0: None).  Returns the final index.
RECURSIVE best_match_loop(_, _, _, _, _)
best_match_loop(spotify_track, candidates, i, best, highest_score) ==
  IF i > Len(candidates) THEN best
  ELSE The({IF score # None /\ is_better(score[1], highest_score)
            THEN best_match_loop(spotify_track, candidates, i + 1, i, score[1])
            ELSE best_match_loop(spotify_track, candidates, i + 1, best, highest_score) :
              score \in {candidate_score(spotify_track, candidates[i])}})

best_match_index(spotify_track, candidates) ==
  IF candidates = <<>> THEN 0
  ELSE best_match_loop(spotify_track, candidates, 1, 0, 0)

find_best_match(spotify_track, candidates) ==
  The({IF b = 0 THEN None ELSE Some(candidates[b]) :
         b \in {best_match_index(spotify_track, candidates)}})

\* ------------------------------------------------------------------- state

VARIABLES
  pc,               \* the statement of main (or of a function call) to run next
  fn_in,            \* the arguments of a function called on its own
  fn_out,           \* its results
  local_entries,    \* the records parsed from local_db.json
  local_db,         \* HashMap: normalized title -> Vec<LocalTrackData>
  all_db_entries,   \* local_db.values().flatten()
  playlist,         \* the playlist held by Spotify: track ids
  all_tracks,       \* Vec<TrackInfo>
  idx,              \* position of the running loop (1-based)
  enriched_count,
  log,              \* per track: the line printed and the match it names
  with_features,
  without_features,
  sorted_tracks,
  calls             \* the requests sent to the playlist sink, in order

vars == <<pc, fn_in, fn_out, local_entries, local_db, all_db_entries, playlist,
          all_tracks, idx, enriched_count, log, with_features, without_features,
          sorted_tracks, calls>>

\* TrackInfo as pushed by the fetch loop: key -1, Major, tempo 0.0.
NewTrackInfo(item) ==
  [id |-> item.id, name |-> item.name, artist |-> item.artist,
   key |-> -1, mode |-> Major, tempo |-> 0, duration_ms |-> item.duration_ms]

\* ------------------------------------------------------------------ inputs

SeqsUpTo(S, n) == UNION {[1..k -> S] : k \in 0..n}

sSong      == <<"S","o","n","g">>
sSongUpper == <<"S","O","N","G">>
sSongLive  == <<"S","o","n","g"," ","-"," ","L","i","v","e">>
sSongRemix == <<"S","o","n","g"," ","R","e","m","i","x">>
sArtist    == <<"A","r","t","i","s","t">>
sArtistPad == <<" ","a","r","t","i","s","t"," ">>
sTheArtist == <<"T","h","e"," ","A","r","t","i","s","t">>
sDaftPunk  == <<"D","a","f","t"," ","P","u","n","k">>

Entry(name, artist, bpm, key_camelot, duration_ms) ==
  [name |-> name, artist |-> artist, bpm |-> bpm, key_camelot |-> key_camelot,
   duration_ms |-> duration_ms]

\* Records of local_db.json drawn for a full run.
DbPool ==
  { Entry(sSong,      sArtist,   120, <<"8","A">>,     Some(300000)),
    Entry(sSongLive,  sArtist,    98, <<"1","B">>,     None),
    Entry(sSongRemix, sArtist,   100, <<"1","3","A">>, None),
    Entry(sSongUpper, sDaftPunk, 128, <<"5","b">>,     Some(200000)) }

\* The tracks Spotify knows, by id.
Catalog ==
  <<[id |-> 1, name |-> sSong, artist |-> sArtist,   duration_ms |-> 201000],
    [id |-> 2, name |-> sSong, artist |-> sDaftPunk, duration_ms |-> 200000]>>

ItemIds == DOMAIN Catalog

\* Candidates drawn for a call of find_best_match on its own.
MatchPool ==
  { Entry(sSong,      sArtist,    120, <<"8","A">>, Some(200000)),
    Entry(sSong,      sArtist,    121, <<"8","B">>, Some(206000)),
    Entry(sSongLive,  sTheArtist, 122, <<"9","A">>, None),
    Entry(sSong,      sDaftPunk,  123, <<"9","B">>, Some(201000)),
    Entry(sSongRemix, sArtistPad, 124, <<"2","A">>, Some(190000)),
    Entry(sSongUpper, sArtistPad, 125, <<"2","B">>, None),
    Entry(sSong,      sArtist,    126, <<"3","A">>, None) }

MatchTracks ==
  { NewTrackInfo(Catalog[1]), NewTrackInfo(Catalog[2]),
    NewTrackInfo([id |-> 4, name |-> sSongLive, artist |-> sTheArtist,
                  duration_ms |-> 0]) }

\* Characters of the strings drawn for camelot_to_spotify.
CodeChars == {"0","1","2","3","4","5","6","7","8","9","A","B","a","X","Y","Z"," "}

\* (key, mode, tempo) of a track after enrichment: untouched, or set from an
\* entry whose key converted (its bpm may be 0).
SortKeys == {8, 11}

SortTempos == {0, 98, 120}

SortStates ==
  {[key |-> -1, mode |-> Major, tempo |-> 0]}
    \cup [key : SortKeys, mode : {Major, Minor}, tempo : SortTempos]

\* ----------------------------------------------------------- load the data

\* One iteration of `for entry in local_entries`.
db_insert(db, entry) ==
  LET key == normalize(entry.name)
  IN  IF key \in DOMAIN db
      THEN [db EXCEPT ![key] = Append(@, entry)]
      ELSE (key :> <<entry>>) @@ db

LoadStep ==
  /\ pc = "load"
  /\ idx <= Len(local_entries)
  /\ local_db' = db_insert(local_db, local_entries[idx])
  /\ idx' = idx + 1
  /\ UNCHANGED <<pc, fn_in, fn_out, local_entries, all_db_entries, playlist,
                 all_tracks, enriched_count, log, with_features,
                 without_features, sorted_tracks, calls>>

\* The orders in which HashMap::values may enumerate the buckets.
BucketOrders(db) ==
  {o \in [1..Cardinality(DOMAIN db) -> DOMAIN db] :
     \A i, j \in DOMAIN o : i # j => o[i] # o[j]}

RECURSIVE flatten(_, _)
flatten(db, order) ==
  IF order = <<>> THEN <<>> ELSE db[Head(order)] \o flatten(db, Tail(order))

\* all_db_entries = local_db.values().flatten().cloned().collect()
Flatten ==
  /\ pc = "load"
  /\ idx > Len(local_entries)
  /\ \E order \in BucketOrders(local_db) :
       all_db_entries' = flatten(local_db, order)
  /\ pc' = "fetch"
  /\ UNCHANGED <<fn_in, fn_out, local_entries, local_db, playlist, all_tracks,
                 idx, enriched_count, log, with_features, without_features,
                 sorted_tracks, calls>>

\* ------------------------------------------------------------------- fetch

\* The paging loop, every page received.
FetchOk ==
  /\ pc = "fetch"
  /\ all_tracks' = [i \in 1..Len(playlist) |-> NewTrackInfo(Catalog[playlist[i]])]
  /\ idx' = 1
  /\ pc' = "enrich"
  /\ UNCHANGED <<fn_in, fn_out, local_entries, local_db, all_db_entries,
                 playlist, enriched_count, log, with_features,
                 without_features, sorted_tracks, calls>>

\* The authorization or a page request fails: `?` returns the error.
FetchErr ==
  /\ pc = "fetch"
  /\ pc' = "failed"
  /\ UNCHANGED <<fn_in, fn_out, local_entries, local_db, all_db_entries,
                 playlist, all_tracks, idx, enriched_count, log, with_features,
                 without_features, sorted_tracks, calls>>

\* ------------------------------------------------------------------ enrich

direct_lookup(db, track) ==
  The({IF title_key \in DOMAIN db THEN find_best_match(track, db[title_key]) ELSE None :
         title_key \in {normalize(track.name)}})

\* The filter closure of the fuzzy fallback.
fuzzy_filter(db_item, track) ==
  \E db_norm \in {normalize(db_item.name)}, spot_norm \in {normalize(track.name)},
     db_artist \in {normalize(db_item.artist)}, spot_artist \in {normalize(track.artist)} :
    LET title_match  == contains(db_norm, spot_norm) \/ contains(spot_norm, db_norm)
        artist_match == contains(db_artist, spot_artist) \/ contains(spot_artist, db_artist)
    IN  title_match /\ artist_match

fuzzy_lookup(entries, track) ==
  LET keep(db_item) == fuzzy_filter(db_item, track)
  IN  The({find_best_match(track, potential_matches) :
             potential_matches \in {SelectSeq(entries, keep)}})

\* Mutant of lookup: the fuzzy fallback is consulted although the direct
\* lookup matched, and its match preferred.
lookup_fuzzy_always(db, entries, track) ==
  The({IF direct # None /\ fuzzy = None
       THEN [best_match |-> direct, by |-> "direct"]
       ELSE [best_match |-> fuzzy, by |-> "fuzzy"] :
         direct \in {direct_lookup(db, track)},
         fuzzy \in {fuzzy_lookup(entries, track)}})

\* best_match of one iteration, with the lookup that produced it.
lookup(db, entries, track) ==
  The({IF direct # None
       THEN [best_match |-> direct, by |-> "direct"]
       ELSE [best_match |-> fuzzy_lookup(entries, track), by |-> "fuzzy"] :
         direct \in {direct_lookup(db, track)}})

\* Mutant of apply_match: the tempo is assigned before the key is converted.
apply_match_tempo_first(track, best_match) ==
  IF best_match = None THEN track
  ELSE The({IF conv = None THEN [track EXCEPT !.tempo = best_match[1].bpm]
            ELSE [track EXCEPT !.tempo = best_match[1].bpm,
                               !.key   = conv[1].pitch,
                               !.mode  = conv[1].mode] :
              conv \in {camelot_to_spotify(best_match[1].key_camelot)}})

\* The track after `if let Some(match_data) = best_match { ... }`.
apply_match(track, best_match) ==
  IF best_match = None THEN track
  ELSE The({IF conv = None THEN track
            ELSE [track EXCEPT !.tempo = best_match[1].bpm,
                               !.key   = conv[1].pitch,
                               !.mode  = conv[1].mode] :
              conv \in {camelot_to_spotify(best_match[1].key_camelot)}})

\* The line printed for the track.
outcome(best_match) ==
  IF best_match = None THEN "MISSING"
  ELSE IF camelot_to_spotify(best_match[1].key_camelot) = None THEN "KEY ERR"
  ELSE "MATCH"

\* One iteration of `for track in &mut all_tracks`.
EnrichStep ==
  /\ pc = "enrich"
  /\ idx <= Len(all_tracks)
  /\ \E found \in {lookup(local_db, all_db_entries, all_tracks[idx])} :
       \E line \in {outcome(found.best_match)} :
         /\ all_tracks' = [all_tracks EXCEPT
                             ![idx] = apply_match(all_tracks[idx], found.best_match)]
         /\ enriched_count' = IF line = "MATCH" THEN enriched_count + 1 ELSE enriched_count
         /\ log' = Append(log, [line |-> line, best_match |-> found.best_match,
                                by |-> found.by])
  /\ idx' = idx + 1
  /\ UNCHANGED <<pc, fn_in, fn_out, local_entries, local_db, all_db_entries,
                 playlist, with_features, without_features, sorted_tracks, calls>>

EnrichDone ==
  /\ pc = "enrich"
  /\ idx > Len(all_tracks)
  /\ idx' = 1
  /\ pc' = "partition"
  /\ UNCHANGED <<fn_in, fn_out, local_entries, local_db, all_db_entries,
                 playlist, all_tracks, enriched_count, log, with_features,
                 without_features, sorted_tracks, calls>>

\* ---------------------------------------------------------- partition, sort

\* Mutant of has_features: the tempo is not tested.
has_features_key_only(t) == t.key >= 0

\* The test of the partition loop: key >= 0 && tempo > 0.0.
has_features(t) == t.key >= 0 /\ t.tempo > 0

\* One iteration of `for t in all_tracks.into_iter()`.
PartitionStep ==
  /\ pc = "partition"
  /\ idx <= Len(all_tracks)
  /\ LET t == all_tracks[idx]
     IN  IF has_features(t)
         THEN with_features' = Append(with_features, t)
              /\ UNCHANGED without_features
         ELSE without_features' = Append(without_features, t)
              /\ UNCHANGED with_features
  /\ idx' = idx + 1
  /\ UNCHANGED <<pc, fn_in, fn_out, local_entries, local_db, all_db_entries,
                 playlist, all_tracks, enriched_count, log, sorted_tracks, calls>>

PartitionDone ==
  /\ pc = "partition"
  /\ idx > Len(all_tracks)
  /\ pc' = "sort"
  /\ UNCHANGED <<fn_in, fn_out, local_entries, local_db, all_db_entries,
                 playlist, all_tracks, idx, enriched_count, log, with_features,
                 without_features, sorted_tracks, calls>>

\* Ordering: -1 Less, 0 Equal, 1 Greater.
cmp(a, b) == IF a < b THEN -1 ELSE IF a > b THEN 1 ELSE 0

\* Ordering::then
then(first, second) == IF first # 0 THEN first ELSE second

\* Mutant of compare_tracks: the tempos compared the other way round.
compare_tracks_tempo_desc(a, b) ==
  LET a_weight == get_sort_weight(a.key, a.mode)
      b_weight == get_sort_weight(b.key, b.mode)
  IN  then(cmp(a_weight, b_weight), cmp(b.tempo, a.tempo))

\* The closure given to sort_by.
compare_tracks(a, b) ==
  LET a_weight == get_sort_weight(a.key, a.mode)
      b_weight == get_sort_weight(b.key, b.mode)
  IN  then(cmp(a_weight, b_weight), cmp(a.tempo, b.tempo))

\* x put into a sorted v behind every element that is not greater than it.
insert_stable(v, x) ==
  LET greater == {j \in 1..Len(v) : compare_tracks(v[j], x) > 0}
      at == IF greater = {} THEN Len(v) + 1
            ELSE CHOOSE j \in greater : \A k \in greater : j <= k
  IN  SubSeq(v, 1, at - 1) \o <<x>> \o SubSeq(v, at, Len(v))

\* slice::sort_by, a stable sort, as an insertion sort.
RECURSIVE sort_by(_)
sort_by(v) ==
  IF v = <<>> THEN <<>>
  ELSE The({insert_stable(sorted, v[Len(v)]) :
              sorted \in {sort_by(SubSeq(v, 1, Len(v) - 1))}})

Sort ==
  /\ pc = "sort"
  /\ with_features' = sort_by(with_features)
  /\ pc' = "extend"
  /\ UNCHANGED <<fn_in, fn_out, local_entries, local_db, all_db_entries,
                 playlist, all_tracks, idx, enriched_count, log,
                 without_features, sorted_tracks, calls>>

\* with_features.extend(without_features); sorted_tracks = with_features
Extend ==
  /\ pc = "extend"
  /\ sorted_tracks' = with_features \o without_features
  /\ with_features' = <<>>
  /\ without_features' = <<>>
  /\ pc' = "update"
  /\ UNCHANGED <<fn_in, fn_out, local_entries, local_db, all_db_entries,
                 playlist, all_tracks, idx, enriched_count, log, calls>>

\* -------------------------------------------------------------- write-back

playable_items(tracks) == [i \in 1..Len(tracks) |-> tracks[i].id]

Min(a, b) == IF a < b THEN a ELSE b

\* Mutant of chunks: the end of a chunk taken one item too far.
chunks_overlap(items, size) ==
  [k \in 1..((Len(items) + size - 1) \div size) |->
     SubSeq(items, (k - 1) * size + 1, Min(k * size + 1, Len(items)))]

\* slice::chunks(size): full chunks, then the remainder if there is one.
chunks(items, size) ==
  [k \in 1..((Len(items) + size - 1) \div size) |->
     SubSeq(items, (k - 1) * size + 1, Min(k * size, Len(items)))]

\* `if !playable_items.is_empty() { ... } else { println!("No tracks to update.") }`
UpdateEmpty ==
  /\ pc = "update"
  /\ playable_items(sorted_tracks) = <<>>
  /\ pc' = "done"
  /\ UNCHANGED <<fn_in, fn_out, local_entries, local_db, all_db_entries,
                 playlist, all_tracks, idx, enriched_count, log, with_features,
                 without_features, sorted_tracks, calls>>

\* playlist_replace_items(first): the request succeeds, or it fails (and the
\* sink may or may not have applied it) and `?` returns the error.
ReplaceItems ==
  /\ pc = "update"
  /\ playable_items(sorted_tracks) # <<>>
  /\ LET first == chunks(playable_items(sorted_tracks), ChunkSize)[1]
     IN  \/ /\ playlist' = first
            /\ calls' = Append(calls, [op |-> "replace", items |-> first, ok |-> TRUE])
            /\ idx' = 2
            /\ pc' = "append"
         \/ /\ \E applied \in BOOLEAN :
                 playlist' = IF applied THEN first ELSE playlist
            /\ calls' = Append(calls, [op |-> "replace", items |-> first, ok |-> FALSE])
            /\ idx' = idx
            /\ pc' = "failed"
  /\ UNCHANGED <<fn_in, fn_out, local_entries, local_db, all_db_entries,
                 all_tracks, enriched_count, log, with_features,
                 without_features, sorted_tracks>>

\* One iteration of `for chunk in chunks`: playlist_add_items(chunk, None).
AddItems ==
  /\ pc = "append"
  /\ idx <= Len(chunks(playable_items(sorted_tracks), ChunkSize))
  /\ LET chunk == chunks(playable_items(sorted_tracks), ChunkSize)[idx]
     IN  \/ /\ playlist' = playlist \o chunk
            /\ calls' = Append(calls, [op |-> "add", items |-> chunk, ok |-> TRUE])
            /\ idx' = idx + 1
            /\ pc' = "append"
         \/ /\ \E applied \in BOOLEAN :
                 playlist' = IF applied THEN playlist \o chunk ELSE playlist
            /\ calls' = Append(calls, [op |-> "add", items |-> chunk, ok |-> FALSE])
            /\ idx' = idx
            /\ pc' = "failed"
  /\ UNCHANGED <<fn_in, fn_out, local_entries, local_db, all_db_entries,
                 all_tracks, enriched_count, log, with_features,
                 without_features, sorted_tracks>>

UpdateDone ==
  /\ pc = "append"
  /\ idx > Len(chunks(playable_items(sorted_tracks), ChunkSize))
  /\ pc' = "done"
  /\ UNCHANGED <<fn_in, fn_out, local_entries, local_db, all_db_entries,
                 playlist, all_tracks, idx, enriched_count, log, with_features,
                 without_features, sorted_tracks, calls>>

\* ---------------------------------------------------------- specifications

\* A full run of main: any dataset, any playlist.
Init ==
  /\ pc = "load"
  /\ fn_in = <<>>
  /\ fn_out = <<>>
  /\ local_entries \in SeqsUpTo(DbPool, MaxEntries)
  /\ local_db = <<>>
  /\ all_db_entries = <<>>
  /\ playlist \in SeqsUpTo(ItemIds, MaxPlaylist)
  /\ all_tracks = <<>>
  /\ idx = 1
  /\ enriched_count = 0
  /\ log = <<>>
  /\ with_features = <<>>
  /\ without_features = <<>>
  /\ sorted_tracks = <<>>
  /\ calls = <<>>

Next ==
  \/ LoadStep
  \/ Flatten
  \/ FetchOk
  \/ FetchErr
  \/ EnrichStep
  \/ EnrichDone
  \/ PartitionStep
  \/ PartitionDone
  \/ Sort
  \/ Extend
  \/ UpdateEmpty
  \/ ReplaceItems
  \/ AddItems
  \/ UpdateDone

Spec == Init /\ [][Next]_vars

\* main runs each statement once its predecessor has returned.
FairSpec == Spec /\ WF_vars(Next)

\* The partition and the sort, from any list of enriched tracks.
SortInit ==
  /\ pc = "partition"
  /\ fn_in = <<>>
  /\ fn_out = <<>>
  /\ local_entries = <<>>
  /\ local_db = <<>>
  /\ all_db_entries = <<>>
  /\ playlist = <<>>
  /\ \E st \in SeqsUpTo(SortStates, MaxSort) :
       all_tracks = [i \in 1..Len(st) |->
                       [id |-> i, name |-> <<>>, artist |-> <<>>, key |-> st[i].key,
                        mode |-> st[i].mode, tempo |-> st[i].tempo, duration_ms |-> 0]]
  /\ idx = 1
  /\ enriched_count = 0
  /\ log = <<>>
  /\ with_features = <<>>
  /\ without_features = <<>>
  /\ sorted_tracks = <<>>
  /\ calls = <<>>

SortNext == PartitionStep \/ PartitionDone \/ Sort \/ Extend

SortSpec == SortInit /\ [][SortNext]_vars

\* The write-back, from any final sequence.
WriteInit ==
  /\ pc = "update"
  /\ fn_in = <<>>
  /\ fn_out = <<>>
  /\ local_entries = <<>>
  /\ local_db = <<>>
  /\ all_db_entries = <<>>
  /\ playlist \in SeqsUpTo(ItemIds, MaxWrite)
  /\ all_tracks = [i \in 1..Len(playlist) |-> NewTrackInfo(Catalog[playlist[i]])]
  /\ idx = 1
  /\ enriched_count = 0
  /\ log = [i \in 1..Len(playlist) |-> [line |-> "MISSING", best_match |-> None,
                                         by |-> "fuzzy"]]
  /\ with_features = <<>>
  /\ without_features = <<>>
  /\ sorted_tracks = all_tracks
  /\ calls = <<>>

WriteNext == UpdateEmpty \/ ReplaceItems \/ AddItems \/ UpdateDone

WriteSpec == WriteInit /\ [][WriteNext]_vars

\* camelot_to_spotify on any string, then get_sort_weight on its result.
CamelotInit ==
  /\ pc = "camelot_to_spotify"
  /\ fn_in \in SeqsUpTo(CodeChars, MaxCodeLen)
  /\ fn_out = <<>>
  /\ local_entries = <<>>
  /\ local_db = <<>>
  /\ all_db_entries = <<>>
  /\ playlist = <<>>
  /\ all_tracks = <<>>
  /\ idx = 1
  /\ enriched_count = 0
  /\ log = <<>>
  /\ with_features = <<>>
  /\ without_features = <<>>
  /\ sorted_tracks = <<>>
  /\ calls = <<>>

CallCamelot ==
  /\ pc = "camelot_to_spotify"
  /\ fn_out' = <<camelot_to_spotify(fn_in)>>
  /\ pc' = "get_sort_weight"
  /\ UNCHANGED <<fn_in, local_entries, local_db, all_db_entries, playlist,
                 all_tracks, idx, enriched_count, log, with_features,
                 without_features, sorted_tracks, calls>>

CallSortWeight ==
  /\ pc = "get_sort_weight"
  /\ fn_out[1] # None
  /\ fn_out' = <<fn_out[1], get_sort_weight(fn_out[1][1].pitch, fn_out[1][1].mode)>>
  /\ pc' = "returned"
  /\ UNCHANGED <<fn_in, local_entries, local_db, all_db_entries, playlist,
                 all_tracks, idx, enriched_count, log, with_features,
                 without_features, sorted_tracks, calls>>

CamelotNext == CallCamelot \/ CallSortWeight

CamelotSpec == CamelotInit /\ [][CamelotNext]_vars

\* find_best_match on any track and any list of candidates.
MatchInit ==
  /\ pc = "find_best_match"
  /\ fn_in \in [track : MatchTracks, candidates : SeqsUpTo(MatchPool, MaxCands)]
  /\ fn_out = <<>>
  /\ local_entries = <<>>
  /\ local_db = <<>>
  /\ all_db_entries = <<>>
  /\ playlist = <<>>
  /\ all_tracks = <<>>
  /\ idx = 1
  /\ enriched_count = 0
  /\ log = <<>>
  /\ with_features = <<>>
  /\ without_features = <<>>
  /\ sorted_tracks = <<>>
  /\ calls = <<>>

CallFindBestMatch ==
  /\ pc = "find_best_match"
  /\ fn_out' = <<find_best_match(fn_in.track, fn_in.candidates)>>
  /\ pc' = "returned"
  /\ UNCHANGED <<fn_in, local_entries, local_db, all_db_entries, playlist,
                 all_tracks, idx, enriched_count, log, with_features,
                 without_features, sorted_tracks, calls>>

MatchNext == CallFindBestMatch

MatchSpec == MatchInit /\ [][MatchNext]_vars

\* ================================================================= claims

\* ---------------------------------------------------- Camelot codes (C3, C6)

DecimalDigits(n) ==
  IF n < 10 THEN <<DigitChars[n + 1]>>
  ELSE <<DigitChars[(n \div 10) + 1], DigitChars[(n % 10) + 1]>>

CamelotCode(n, letter) == DecimalDigits(n) \o <<letter>>

CamelotCodes == {CamelotCode(n, letter) : n \in 1..12, letter \in {"A", "B"}}

CamelotOrdinal(n, letter) == n * 10 + (IF letter = "B" THEN 1 ELSE 0)

\* C3: for each of the 24 Camelot codes nA, nB (n in 1..12), camelot_to_spotify
\* succeeds and get_sort_weight of its result is n*10 + (1 if B else 0); the
\* number and the letter are recovered from the weight, and no other code
\* converts to the same (pitch, mode).
C3_WeightIsOrdinal ==
  \A n \in 1..12, letter \in {"A", "B"} :
    fn_in = CamelotCode(n, letter) =>
      /\ pc = "get_sort_weight" => fn_out[1] # None
      /\ pc = "returned" =>
           /\ fn_out[2] = CamelotOrdinal(n, letter)
           /\ fn_out[2] \div 10 = n
           /\ (fn_out[2] % 10 = 1) = (letter = "B")
           /\ fn_out[1][1].mode = (IF letter = "B" THEN Major ELSE Minor)
           /\ \A other \in CamelotCodes \ {fn_in} :
                camelot_to_spotify(other) # fn_out[1]

C3_Witness ==
  /\ pc = "returned"
  /\ fn_in = <<"1", "2", "B">>
  /\ fn_out = <<Some([pitch |-> 4, mode |-> Major]), 121>>

\* C6: camelot_to_spotify fails for "13A", "" and "XYZ", and succeeds only for
\* inputs that, trimmed and uppercased, are one of the 24 codes 1A..12B (so it
\* fails when the number is missing or outside 1..12, or the letter suffix is
\* neither A nor B).
C6_FailsUnlessCode ==
  pc \in {"get_sort_weight", "returned"} =>
    /\ fn_in \in {<<"1", "3", "A">>, <<>>, <<"X", "Y", "Z">>} => fn_out[1] = None
    /\ fn_out[1] # None => to_uppercase(trim(fn_in)) \in CamelotCodes

\* ---------------------------------------------------- track matcher (C4, C5)

\* The artist gate, as the claims state it.
PassesArtistGate(track, candidate) ==
  \E a \in {normalize(candidate.artist)}, b \in {normalize(track.artist)} :
    a = b \/ contains(a, b) \/ contains(b, a)

\* The score of a candidate that passes the gate, as the claims state it.
ClaimedScore(track, candidate) ==
  LET known == candidate.duration_ms # None
      diff  == Abs(candidate.duration_ms[1] - track.duration_ms)
  IN  (IF normalize(candidate.artist) = normalize(track.artist) THEN 100 ELSE 80)
      + (IF ~known THEN 0 ELSE IF diff < 5000 THEN 50 ELSE -50)
      + (IF normalize(candidate.name) = normalize(track.name) THEN 20 ELSE 0)

\* The candidates (by position) that pass the gate.
Passing(track, candidates) ==
  {i \in 1..Len(candidates) : PassesArtistGate(track, candidates[i])}

\* The first of the passing candidates with the highest score.
FirstBest(track, candidates) ==
  CHOOSE i \in Passing(track, candidates) :
    \A j \in Passing(track, candidates) :
      \/ ClaimedScore(track, candidates[j]) < ClaimedScore(track, candidates[i])
      \/ ClaimedScore(track, candidates[j]) = ClaimedScore(track, candidates[i]) /\ i <= j

\* C4: the candidate find_best_match returns is the one with the highest score
\* (100/80 artist, +50/-50/0 duration, +20 exact title) among those passing the
\* artist gate, and the first of them in the list when several share it.
C4_FirstHighestScore ==
  (pc = "returned" /\ Passing(fn_in.track, fn_in.candidates) # {}) =>
    fn_out[1] = Some(fn_in.candidates[FirstBest(fn_in.track, fn_in.candidates)])

\* Two different candidates share the highest score and the first is returned.
C4_Witness ==
  /\ pc = "returned"
  /\ \E i, j \in Passing(fn_in.track, fn_in.candidates) :
       /\ i < j
       /\ i = FirstBest(fn_in.track, fn_in.candidates)
       /\ ClaimedScore(fn_in.track, fn_in.candidates[i])
            = ClaimedScore(fn_in.track, fn_in.candidates[j])
       /\ fn_in.candidates[i] # fn_in.candidates[j]
       /\ fn_out[1] = Some(fn_in.candidates[i])

Resolved(t) == t.key >= 0 /\ t.tempo > 0

Unresolved(t) == ~Resolved(t)

Weight(t) == get_sort_weight(t.key, t.mode)

\* How often x occurs in v.
Count(v, x) == Cardinality({i \in 1..Len(v) : v[i] = x})

IsPermutation(v, w) ==
  /\ Len(v) = Len(w)
  /\ \A i \in 1..Len(v) : Count(v, v[i]) = Count(w, v[i])

\* The position in v of the track with this id (ids are distinct in SortSpec).
PosOf(v, id) == CHOOSE k \in 1..Len(v) : v[k].id = id

\* C1: the resolved part of the final order holds the resolved tracks of the
\* input, non-decreasing in (get_sort_weight, tempo) from each track to the
\* next, and resolved tracks of equal weight and tempo keep their input order.
C1_StableHarmonicSort ==
  pc = "update" =>
    LET out == SelectSeq(sorted_tracks, Resolved)
        inp == SelectSeq(all_tracks, Resolved)
    IN  /\ IsPermutation(inp, out)
        /\ \A i \in 1..(Len(out) - 1) :
             \/ Weight(out[i]) < Weight(out[i + 1])
             \/ Weight(out[i]) = Weight(out[i + 1]) /\ out[i].tempo <= out[i + 1].tempo
        /\ \A i, j \in 1..Len(inp) :
             (i < j /\ Weight(inp[i]) = Weight(inp[j]) /\ inp[i].tempo = inp[j].tempo)
               => PosOf(out, inp[i].id) < PosOf(out, inp[j].id)

\* The sort moved a track, broke a tie of weights by tempo, and kept two
\* tracks of equal weight and tempo in their order.
C1_Witness ==
  /\ pc = "update"
  /\ LET out == SelectSeq(sorted_tracks, Resolved)
         inp == SelectSeq(all_tracks, Resolved)
     IN  /\ out # inp
         /\ \E i, j \in 1..Len(inp) :
              i < j /\ Weight(inp[i]) = Weight(inp[j]) /\ inp[i].tempo = inp[j].tempo
         /\ \E i, j \in 1..Len(inp) :
              i < j /\ Weight(inp[i]) = Weight(inp[j]) /\ inp[i].tempo > inp[j].tempo

\* C2: in the final order every resolved track comes before every unresolved
\* one, the unresolved tracks keep their input order, and the final order is a
\* permutation of the input.
C2_ResolvedFirst ==
  pc = "update" =>
    /\ \A i, j \in 1..Len(sorted_tracks) :
         (Resolved(sorted_tracks[i]) /\ Unresolved(sorted_tracks[j])) => i < j
    /\ SelectSeq(sorted_tracks, Unresolved) = SelectSeq(all_tracks, Unresolved)
    /\ IsPermutation(all_tracks, sorted_tracks)

\* An unresolved track that was ahead of a resolved one, and a track with a
\* key but no tempo among the unresolved, in their order.
C2_Witness ==
  /\ pc = "update"
  /\ \E i, j \in 1..Len(all_tracks) :
       i < j /\ Unresolved(all_tracks[i]) /\ Resolved(all_tracks[j])
  /\ \E i, j \in 1..Len(all_tracks) :
       /\ i < j
       /\ all_tracks[i].key = -1
       /\ all_tracks[j].key >= 0 /\ all_tracks[j].tempo = 0
  /\ Len(SelectSeq(sorted_tracks, Unresolved)) >= 2

\* --------------------------------------------------------- write-back (C8)

FinalIds == [i \in 1..Len(sorted_tracks) |-> sorted_tracks[i].id]

\* The k-th chunk of the final sequence, as the claim states it.
ClaimedChunk(k) ==
  SubSeq(FinalIds, ChunkSize * (k - 1) + 1, Min(ChunkSize * k, Len(FinalIds)))

\* The number of chunks: the least m with m * ChunkSize >= n.
ClaimedChunkCount ==
  CHOOSE m \in 0..Len(FinalIds) :
    /\ m * ChunkSize >= Len(FinalIds)
    /\ \A l \in 0..Len(FinalIds) : l * ChunkSize >= Len(FinalIds) => m <= l

\* C8: the calls sent are one replace with the first min(ChunkSize, n) items,
\* then one add per following chunk, in order; a failed call is the last call
\* and ends the run with the error; when all have succeeded the playlist is
\* the final sequence.
C8_ChunkedWriteBack ==
  /\ Len(calls) <= ClaimedChunkCount
  /\ \A k \in 1..Len(calls) :
       /\ calls[k].op = (IF k = 1 THEN "replace" ELSE "add")
       /\ calls[k].items = ClaimedChunk(k)
       /\ Len(calls[k].items) \in 1..ChunkSize
       /\ k < Len(calls) => calls[k].ok
  /\ calls # <<>> => calls[1].items = SubSeq(FinalIds, 1, Min(ChunkSize, Len(FinalIds)))
  /\ (calls # <<>> /\ ~calls[Len(calls)].ok) => pc = "failed"
  /\ (pc = "done" /\ FinalIds # <<>>) =>
       /\ Len(calls) = ClaimedChunkCount
       /\ \A k \in 1..Len(calls) : calls[k].ok
       /\ playlist = FinalIds

\* A replace and two adds, the last a partial chunk, have rewritten a playlist.
C8_Witness ==
  /\ pc = "done"
  /\ Len(calls) = 3
  /\ Len(calls[3].items) < ChunkSize
  /\ playlist = FinalIds
  /\ Cardinality({FinalIds[i] : i \in 1..Len(FinalIds)}) > 1

\* ------------------------------------------------ enrichment (C7, C9, C10)

\* The i-th track as it was fetched.
Fetched(i) == NewTrackInfo(Catalog[all_tracks[i].id])

Untouched(t) == t.key = -1 /\ t.mode = Major /\ t.tempo = 0

Lines(line) == {i \in 1..Len(log) : log[i].line = line}

\* A track whose match has a key that does not convert is left as fetched and
\* is not counted; the tracks not yet reached are as fetched.
C7_KeyErrorLeavesTrack ==
  /\ \A i \in Lines("KEY ERR") :
       /\ log[i].best_match # None
       /\ all_tracks[i] = Fetched(i)
       /\ Untouched(all_tracks[i])
       /\ ~Resolved(all_tracks[i])
  /\ enriched_count = Cardinality(Lines("MATCH"))
  /\ pc \in {"partition", "sort", "extend", "update", "append", "done"}
       => Len(log) = Len(all_tracks)

\* C7: a match whose key_camelot does not convert leaves the track unchanged
\* (key -1, Major, tempo 0: unresolved, not counted), the run goes on to the
\* later tracks, and the enrichment loop always reaches the sort with every
\* track processed.
C7_EnrichmentNeverAborts ==
  /\ []C7_KeyErrorLeavesTrack
  /\ (pc = "enrich") ~> (pc = "sort" /\ Len(log) = Len(all_tracks))

\* A key error on one track, a match on a later one, and the sort reached.
C7_Witness ==
  /\ pc = "sort"
  /\ \E i \in Lines("KEY ERR") : \E j \in Lines("MATCH") : i < j

\* The entries with the track's normalized title, in the order of the file.
SameTitle(track) ==
  LET same(e) == normalize(e.name) = normalize(track.name)
  IN  SelectSeq(local_entries, same)

\* The entries of the flattened list whose title and whose artist each
\* contain, or are contained in, the track's.
Similar(track) ==
  LET similar(e) ==
        \E title \in {normalize(e.name)}, artist \in {normalize(e.artist)},
           own_title \in {normalize(track.name)}, own_artist \in {normalize(track.artist)} :
          /\ contains(title, own_title) \/ contains(own_title, title)
          /\ contains(artist, own_artist) \/ contains(own_artist, artist)
  IN  SelectSeq(all_db_entries, similar)

\* C9: the match of a track is find_best_match over the entries with its
\* normalized title if that finds one (the fuzzy fallback is not consulted),
\* and else find_best_match over the entries of the flattened list similar in
\* title and in artist; the tempo, key and mode of a track all come from that
\* one entry, and a track is enriched at most once.
C9_DirectThenFuzzy ==
  /\ Len(log) <= Len(all_tracks)
  /\ \A i \in 1..Len(all_tracks) :
       IF i > Len(log) THEN all_tracks[i] = Fetched(i)
       ELSE \E track \in {Fetched(i)} :
            \E direct \in {find_best_match(track, SameTitle(track))} :
            \E m \in {IF direct # None THEN direct
                       ELSE find_best_match(track, Similar(track))} :
            \E conv \in {IF m = None THEN None ELSE camelot_to_spotify(m[1].key_camelot)} :
              /\ log[i].best_match = m
              /\ log[i].by = "direct" <=> direct # None
              /\ IF conv # None
                 THEN /\ all_tracks[i].tempo = m[1].bpm
                      /\ all_tracks[i].key = conv[1].pitch
                      /\ all_tracks[i].mode = conv[1].mode
                 ELSE all_tracks[i] = track

\* One track enriched by the fuzzy fallback after the entries with its title
\* failed the artist gate, another enriched by the direct lookup.
C9_Witness ==
  /\ \E i \in 1..Len(log) :
       /\ log[i].by = "fuzzy"
       /\ log[i].best_match # None
       /\ SameTitle(Fetched(i)) # <<>>
       /\ all_tracks[i] # Fetched(i)
  /\ \E j \in 1..Len(log) :
       /\ log[j].by = "direct"
       /\ all_tracks[j] # Fetched(j)

\* C10: the match of a track (and with it the key, mode and tempo it gets and
\* its place in the final order) is the same for every order in which the
\* flattened list enumerates the buckets of the title index.
C10_OrderIndependent ==
  \A i \in 1..Len(log) :
    \A order \in BucketOrders(local_db) :
      lookup(local_db, flatten(local_db, order), Fetched(i)).best_match
        = log[i].best_match

====
